---------------------------- MODULE Spec2Model ----------------------------
(***************************************************************************)
(* Expense tracker: the Store (database/db_manager.py, DatabaseManager),   *)
(* the Aggregator (logic/analyzer.py, ExpenseAnalyzer) under Spec, and the *)
(* entry form of the window (gui/main_window.py, MainWindow) under SpecGui.*)
(*                                                                         *)
(* The SQLite file is modelled by the rows of the `expenses` table in      *)
(* rowid order, the AUTOINCREMENT sequence, and the number of `expenses`   *)
(* tables in the schema.  Every method is one action; the storage engine's *)
(* failures (connection cannot be opened, statement or commit fails) are   *)
(* inputs of the action.                                                   *)
(*                                                                         *)
(* Values bound to a statement are tagged: NULL, a number (Python int or   *)
(* float, modelled as an integer), or text.  A text is the sequence of its *)
(* character codes, so that the engine's comparison (memcmp) and its       *)
(* text-to-number conversion are computed and not assumed.                 *)
(***************************************************************************)
EXTENDS Integers, Sequences, FiniteSets

(* ------------------------------ bounds -------------------------------- *)

\* At most this many rows are inserted.
MaxRows == 3

\* At most this many unclosed connections are counted.
MaxOpenConns == 1

(* ------------------------------ values -------------------------------- *)

Null == [t |-> "null", v |-> 0, s |-> <<>>]

Real(n) == [t |-> "real", v |-> n, s |-> <<>>]

Text(str) == [t |-> "text", v |-> 0, s |-> str]

\* pandas' missing-value marker, produced by to_numeric(errors='coerce').
NaN == [t |-> "nan", v |-> 0, s |-> <<>>]

\* Character codes of the texts the calls use.
Food == Text(<<70, 111, 111, 100>>)

Transport == Text(<<84, 114>>)

Misc == Text(<<77>>)

Lunch == Text(<<108, 117, 110, 99, 104>>)

\* Dates, zero padded ("01" < "02" < "03") and one that is not ("1").
Jan == Text(<<48, 49>>)

Feb == Text(<<48, 50>>)

Mar == Text(<<48, 51>>)

Unpadded == Text(<<49>>)

\* The amount given as the text "7" and as the text "abc".
Seven == Text(<<55>>)

Abc == Text(<<97, 98, 99>>)

IsDigit(c) == c >= 48 /\ c <= 57

IsDigits(str) == str # <<>> /\ \A i \in 1..Len(str) : IsDigit(str[i])

RECURSIVE DigitsValue(_)
\* Value of a text of decimal digits.
DigitsValue(str) ==
    IF str = <<>> THEN 0
    ELSE 10 * DigitsValue(SubSeq(str, 1, Len(str) - 1)) + (str[Len(str)] - 48)

RECURSIVE LexLess(_, _)
\* BINARY collation: memcmp of the bytes, a proper prefix is smaller.
LexLess(a, b) ==
    IF a = <<>> THEN b # <<>>
    ELSE IF b = <<>> THEN FALSE
    ELSE IF Head(a) # Head(b) THEN Head(a) < Head(b)
    ELSE LexLess(Tail(a), Tail(b))

\* Comparison of two stored TEXT values, as ORDER BY uses it.
TextLess(x, y) == LexLess(x.s, y.s)

\* Column affinity REAL (amount REAL): a text that looks like a number is
\* stored as the number, any other value is stored as it is.
RealAffinity(val) ==
    IF val.t = "text" /\ IsDigits(val.s) THEN Real(DigitsValue(val.s)) ELSE val

\* pd.to_numeric(_, errors='coerce') on one cell.
ToNumericCoerce(val) ==
    IF val.t = "real" THEN val
    ELSE IF val.t = "text" /\ IsDigits(val.s) THEN Real(DigitsValue(val.s))
    ELSE NaN

(* ------------------------------- inputs ------------------------------- *)

Call(a, c, d, desc) == [amount |-> a, category |-> c, date |-> d, description |-> desc]

\* The argument tuples add_expense is called with.
Calls ==
    { Call(Real(10), Food, Jan, Lunch),
      Call(Real(20), Food, Mar, Null),
      Call(Real(5), Transport, Feb, Null),
      Call(Seven, Transport, Mar, Lunch),
      Call(Abc, Misc, Unpadded, Null),
      Call(Null, Food, Jan, Null),
      Call(Real(10), Null, Jan, Null),
      Call(Real(10), Food, Null, Lunch) }

NoArgs == Call(Null, Null, Null, Null)

(* -------------------------------- state ------------------------------- *)

VARIABLES
    dirExists,   \* the directory of db_path exists
    tableCount,  \* number of `expenses` tables in the database schema
    table,       \* rows of `expenses` in rowid order
    seq,         \* sqlite_sequence: the largest id AUTOINCREMENT has assigned
    openConns,   \* connections opened and not closed
    op,          \* the method that ran last
    args,        \* its arguments (add_expense)
    status,      \* what the storage engine did: "ok", "conn_failed", "exec_failed"
    raised,      \* the method raised to its caller
    ret,         \* its return value
    before,      \* the rows of `expenses` when it was called
    printed,     \* what it printed to the console, in order
    title_entry,     \* MainWindow: the text of the Title entry
    price_entry,     \* the text of the Price entry
    category_entry,  \* the text of the Category entry
    memo_entry,      \* the text of the Memo entry
    tree,            \* the rows the Treeview shows
    save             \* what the last _save_record did

guiVars == <<title_entry, price_entry, category_entry, memo_entry, tree, save>>

vars == <<dirExists, tableCount, table, seq, openConns, op, args, status, raised, ret, before,
          printed, guiVars>>

\* One field per return type; the fields a method does not return keep these.
NoRet == [b |-> FALSE, rows |-> <<>>, num |-> 0, map |-> <<>>]


\* The form as _save_record read it, and what _save_record did: the number
\* of add_expense calls, what add_expense returned ("none" when it was not
\* called or raised), the message box shown, and whether the form was
\* cleared and the table view refreshed.
Form(t, p, c, m) == [title |-> t, price |-> p, category |-> c, memo |-> m]

NoSave ==
    [submitted |-> Form(<<>>, <<>>, <<>>, <<>>), addCalls |-> 0, success |-> "none",
     dialog |-> "none", cleared |-> FALSE, refreshed |-> FALSE]

(* ------------------------------ the console --------------------------- *)

\* print(f"CRITICAL ERROR: Could not create directory {db_dir}. {e}")
MsgMkdirFailed == "CRITICAL ERROR: Could not create directory"

\* print(f"Attempting to connect to database: {self.db_path}")
MsgAttempting == "Attempting to connect to database"

\* print(f"SQLite Error: {e}")
MsgSqliteError == "SQLite Error"

\* print("CRITICAL ERROR: Could not initialize table. Connection is None.")
MsgNoConnection == "CRITICAL ERROR: Could not initialize table. Connection is None."

(* -------------------------- the storage engine ------------------------ *)

None == "None"

Connection == "Connection"

\* sqlite3.connect inside _get_connection: a connection, or None when the
\* database file cannot be opened (its directory is missing, or the engine
\* reports another error).
get_connection(dir, connOk) == IF dir /\ connOk THEN Connection ELSE None

\* What _get_connection prints when it returns conn.
ConnectionPrints(conn) == IF conn = None THEN <<MsgSqliteError>> ELSE <<>>

\* Mutant of CreateTableIfNotExists: the table is dropped and created anew.
CreateTableDropFirst(count, rows) == [count |-> 1, rows |-> <<>>]

\* CREATE TABLE IF NOT EXISTS expenses (...): the schema and the rows after it.
CreateTableIfNotExists(count, rows) ==
    [count |-> IF count = 0 THEN 1 ELSE count, rows |-> rows]

\* Mutant of NotNullHolds: only the amount column is declared NOT NULL.
NotNullAmountOnly(c) == c.amount.t # "null"

\* amount REAL NOT NULL, category TEXT NOT NULL, date TEXT NOT NULL.
NotNullHolds(c) ==
    c.amount.t # "null" /\ c.category.t # "null" /\ c.date.t # "null"

RECURSIVE MaxId(_)
MaxId(rows) ==
    IF rows = <<>> THEN 0
    ELSE LET m == MaxId(Tail(rows)) IN IF Head(rows).id > m THEN Head(rows).id ELSE m

\* Mutant of NextId: the largest id is taken again.
NextIdNoIncrement(rows, s) == IF MaxId(rows) > s THEN MaxId(rows) ELSE s

\* id INTEGER PRIMARY KEY AUTOINCREMENT: one more than the largest id ever
\* assigned (sqlite_sequence) and than every id in the table.
NextId(rows, s) == (IF MaxId(rows) > s THEN MaxId(rows) ELSE s) + 1

\* Mutant of InsertRow: category and description are bound in each other's place.
InsertRowSwapped(rows, s, c) ==
    Append(rows, [id          |-> NextId(rows, s),
                  amount      |-> RealAffinity(c.amount),
                  category    |-> c.description,
                  date        |-> c.date,
                  description |-> c.category])

\* Mutant of InsertRow: the new row takes the place of the rows stored.
InsertRowReplacing(rows, s, c) ==
    <<[id          |-> NextId(rows, s),
       amount      |-> RealAffinity(c.amount),
       category    |-> c.category,
       date        |-> c.date,
       description |-> c.description]>>

\* INSERT INTO expenses (amount, category, date, description) VALUES (?,?,?,?)
InsertRow(rows, s, c) ==
    Append(rows, [id          |-> NextId(rows, s),
                  amount      |-> RealAffinity(c.amount),
                  category    |-> c.category,
                  date        |-> c.date,
                  description |-> c.description])

RECURSIVE InsertByDateDesc(_, _)
\* Places row r in a sequence that is sorted by date descending, after the
\* rows whose date is not smaller (rows of equal date stay in rowid order).
InsertByDateDesc(r, sorted) ==
    IF sorted = <<>> THEN <<r>>
    ELSE IF TextLess(Head(sorted).date, r.date) THEN <<r>> \o sorted
    ELSE <<Head(sorted)>> \o InsertByDateDesc(r, Tail(sorted))

RECURSIVE SortByDateDesc(_, _)
SortByDateDesc(rows, sorted) ==
    IF rows = <<>> THEN sorted
    ELSE SortByDateDesc(Tail(rows), InsertByDateDesc(Head(rows), sorted))

\* Mutant of SelectOrderByDateDesc: the ORDER BY clause is missing.
SelectUnordered(rows) == rows

\* SELECT * FROM expenses ORDER BY date DESC
SelectOrderByDateDesc(rows) == SortByDateDesc(rows, <<>>)

\* What the environment does during one operation: the connection cannot be
\* opened; or it is opened, the statement (and commit) succeeds or fails, and
\* a connection the operation leaves unclosed is finalized by the runtime
\* when the operation returns (reclaimed) or stays open.
Envs ==
    {[connOk |-> FALSE, execOk |-> FALSE, reclaimed |-> FALSE]}
    \cup {[connOk |-> TRUE, execOk |-> e, reclaimed |-> r] : e \in BOOLEAN, r \in BOOLEAN}

\* The same for an operation that closes its connection itself.
EnvsClosed == {env \in Envs : ~env.reclaimed}

(* ------------------------------ the Store ----------------------------- *)

\* Init: the state DatabaseManager.__init__ leaves on a path that held no
\* database: the directory was created or not, and create_table created the
\* table or failed.
Init ==
    /\ dirExists \in BOOLEAN
    /\ tableCount \in (IF dirExists THEN {0, 1} ELSE {0})
    /\ table = <<>>
    /\ seq = 0
    /\ openConns = 0
    /\ op = "__init__"
    /\ args = NoArgs
    /\ status \in (IF tableCount = 1 THEN {"ok"}
                   ELSE IF dirExists THEN {"conn_failed", "exec_failed"}
                   ELSE {"conn_failed"})
    /\ raised = FALSE
    /\ ret = NoRet
    /\ before = <<>>
    /\ printed = (IF dirExists THEN <<>> ELSE <<MsgMkdirFailed>>)
                 \o <<MsgAttempting>>
                 \o (IF status = "conn_failed" THEN <<MsgSqliteError, MsgNoConnection>>
                     ELSE <<>>)
    \* MainWindow after show_home: an empty form over an empty table view
    /\ title_entry = <<>>
    /\ price_entry = <<>>
    /\ category_entry = <<>>
    /\ memo_entry = <<>>
    /\ tree = <<>>
    /\ save = NoSave

\* The body of create_table, with the directory as the caller left it.
CreateTableBody(dir, connOk, execOk) ==
    LET conn == get_connection(dir, connOk)
        done == conn # None /\ execOk
        db   == CreateTableIfNotExists(tableCount, table)
    IN  /\ tableCount' = IF done THEN db.count ELSE tableCount
        /\ table' = IF done THEN db.rows ELSE table
        /\ status' = IF conn = None THEN "conn_failed"
                     ELSE IF execOk THEN "ok" ELSE "exec_failed"
        \* conn.close() in the finally clause: the connection is closed.
        /\ openConns' = openConns
        /\ raised' = FALSE
        /\ ret' = NoRet
        /\ args' = NoArgs
        /\ before' = table
        /\ seq' = seq

\* What create_table prints.
CreateTablePrints(dir, connOk) ==
    LET conn == get_connection(dir, connOk)
    IN  ConnectionPrints(conn) \o (IF conn = None THEN <<MsgNoConnection>> ELSE <<>>)

\* Mutant of Construct: a failure to create the directory ends the
\* constructor with the exception.
ConstructStoppingOnMkdirFailure ==
    \E mkdirOk \in BOOLEAN, env \in EnvsClosed :
        LET dir == dirExists \/ mkdirOk
        IN  /\ dirExists' = dir
            /\ op' = "__init__"
            /\ IF dir
               THEN /\ CreateTableBody(dir, env.connOk, env.execOk)
                    /\ printed' = <<MsgAttempting>> \o CreateTablePrints(dir, env.connOk)
               ELSE /\ raised' = TRUE
                    /\ status' = "conn_failed"
                    /\ ret' = NoRet
                    /\ args' = NoArgs
                    /\ before' = table
                    /\ printed' = <<>>
                    /\ UNCHANGED <<tableCount, table, seq, openConns>>

\* DatabaseManager.__init__ on the path of this database.
Construct ==
    \E mkdirOk \in BOOLEAN, env \in EnvsClosed :
        LET dir == dirExists \/ mkdirOk
        IN  /\ dirExists' = dir
            /\ op' = "__init__"
            \* os.makedirs is tried when the directory is missing; its
            \* exception is caught and printed, and __init__ goes on
            /\ printed' = (IF dir THEN <<>> ELSE <<MsgMkdirFailed>>)
                           \o <<MsgAttempting>>
                           \o CreateTablePrints(dir, env.connOk)
            /\ CreateTableBody(dir, env.connOk, env.execOk)

\* DatabaseManager.create_table
CreateTable ==
    \E env \in EnvsClosed :
        /\ op' = "create_table"
        /\ printed' = CreateTablePrints(dirExists, env.connOk)
        /\ CreateTableBody(dirExists, env.connOk, env.execOk)
        /\ UNCHANGED dirExists

\* The connections an operation leaves open: `with conn` commits or rolls
\* back and does not close, so the connection stays open unless the runtime
\* finalizes the unreferenced object (reclaimed).
LeftOpen(conn, reclaimed) == IF conn # None /\ ~reclaimed THEN 1 ELSE 0

\* The body of add_expense called with c on the rows `rows` and the
\* sequence s: what it returns or raises, and the rows and sequence after it.
add_expense(rows, s, c, env) ==
    LET conn     == get_connection(dirExists, env.connOk)
        \* conn.execute and the commit of `with conn` both succeed
        inserted == conn # None /\ env.execOk /\ tableCount > 0 /\ NotNullHolds(c)
    IN  [ \* `with None as conn` raises TypeError, which is no sqlite3.Error
          raised |-> (conn = None),
          status |-> IF conn = None THEN "conn_failed"
                     ELSE IF inserted THEN "ok" ELSE "exec_failed",
          ret    |-> inserted,
          rows   |-> IF inserted THEN InsertRow(rows, s, c) ELSE rows,
          seq    |-> IF inserted THEN NextId(rows, s) ELSE s,
          conn   |-> conn ]

\* DatabaseManager.add_expense
AddExpense ==
    \E c \in Calls, env \in Envs :
        LET a == add_expense(table, seq, c, env)
        IN  /\ Len(table) < MaxRows
            /\ openConns + LeftOpen(a.conn, env.reclaimed) <= MaxOpenConns
            /\ op' = "add_expense"
            /\ args' = c
            /\ before' = table
            /\ raised' = a.raised
            /\ status' = a.status
            /\ ret' = [NoRet EXCEPT !.b = a.ret]
            /\ table' = a.rows
            /\ seq' = a.seq
            /\ openConns' = openConns + LeftOpen(a.conn, env.reclaimed)
            /\ printed' = ConnectionPrints(a.conn)
            /\ UNCHANGED <<dirExists, tableCount>>

\* The body of fetch_all_expenses on the rows `rows`.
fetch_rows(rows, connOk, execOk) ==
    LET conn == get_connection(dirExists, connOk)
    IN  IF conn = None
        THEN [raised |-> TRUE, rows |-> <<>>, status |-> "conn_failed", conn |-> conn]
        ELSE IF ~execOk \/ tableCount = 0
        THEN [raised |-> FALSE, rows |-> <<>>, status |-> "exec_failed", conn |-> conn]
        ELSE [raised |-> FALSE, rows |-> SelectOrderByDateDesc(rows),
              status |-> "ok", conn |-> conn]

\* The body of fetch_all_expenses: what it returns or raises.
fetch_all_expenses(connOk, execOk) == fetch_rows(table, connOk, execOk)

\* DatabaseManager.fetch_all_expenses
FetchAllExpenses ==
    \E env \in Envs :
        LET f         == fetch_all_expenses(env.connOk, env.execOk)
            reclaimed == env.reclaimed
        IN  /\ openConns + LeftOpen(f.conn, reclaimed) <= MaxOpenConns
            /\ op' = "fetch_all_expenses"
            /\ args' = NoArgs
            /\ before' = table
            /\ raised' = f.raised
            /\ status' = f.status
            /\ ret' = [NoRet EXCEPT !.rows = f.rows]
            /\ openConns' = openConns + LeftOpen(f.conn, reclaimed)
            /\ printed' = ConnectionPrints(f.conn)
            /\ UNCHANGED <<dirExists, tableCount, table, seq>>

(* ---------------------------- the Aggregator -------------------------- *)

\* Mutant of get_all_as_dataframe: a frame built when the store was empty is
\* kept and returned on every call.
get_all_as_dataframe_cached(raw_data) == <<>>

\* get_all_as_dataframe on the rows fetch_all_expenses returned: the same
\* rows with the amount column coerced to numbers.
get_all_as_dataframe(raw_data) ==
    [i \in 1..Len(raw_data) |->
        [raw_data[i] EXCEPT !.amount = ToNumericCoerce(raw_data[i].amount)]]

\* df['amount']
AmountColumnOf(df) == [i \in 1..Len(df) |-> df[i].amount]

RECURSIVE SumWithNaN(_)
\* Mutant of SumSkipNaN: a cell that is no number makes the sum no number
\* (here -1), as sum(skipna=False) does.
SumWithNaN(cells) ==
    IF cells = <<>> THEN 0
    ELSE IF Head(cells).t # "real" THEN -1
    ELSE LET rest == SumWithNaN(Tail(cells))
         IN  IF rest = -1 THEN -1 ELSE Head(cells).v + rest

\* Mutant of AmountsOf: the rows are not grouped.
AmountsOfAll(df, cat) == AmountColumnOf(df)

RECURSIVE SumSkipNaN(_)
\* Series.sum(): the sum of the cells that are numbers, 0 when there is none.
SumSkipNaN(cells) ==
    IF cells = <<>> THEN 0
    ELSE (IF Head(cells).t = "real" THEN Head(cells).v ELSE 0) + SumSkipNaN(Tail(cells))

RECURSIVE AmountsOf(_, _)
\* The amount cells of the rows of df whose category is cat.
AmountsOf(df, cat) ==
    IF df = <<>> THEN <<>>
    ELSE (IF Head(df).category = cat THEN <<Head(df).amount>> ELSE <<>>)
         \o AmountsOf(Tail(df), cat)

\* get_total_balance on the dataframe
get_total_balance(df) == IF df = <<>> THEN 0 ELSE SumSkipNaN(AmountColumnOf(df))

\* get_category_totals on the dataframe: df.groupby('category')['amount'].sum()
get_category_totals(df) ==
    IF df = <<>> THEN <<>>
    ELSE [cat \in {df[i].category : i \in 1..Len(df)} |-> SumSkipNaN(AmountsOf(df, cat))]

RetFrame(df) == [NoRet EXCEPT !.rows = df]

RetTotal(df) == [NoRet EXCEPT !.num = get_total_balance(df)]

RetTotals(df) == [NoRet EXCEPT !.map = get_category_totals(df)]

\* What the Aggregator method `name` returns on the frame df.
AnalyzerResult(name, df) ==
    IF name = "get_all_as_dataframe" THEN RetFrame(df)
    ELSE IF name = "get_total_balance" THEN RetTotal(df)
    ELSE RetTotals(df)

\* An Aggregator method: it fetches, builds the frame and computes on it; an
\* exception of the fetch passes through it.
AnalyzerCall(name) ==
    \E env \in Envs :
        LET f         == fetch_all_expenses(env.connOk, env.execOk)
            reclaimed == env.reclaimed
        IN  /\ openConns + LeftOpen(f.conn, reclaimed) <= MaxOpenConns
            /\ op' = name
            /\ args' = NoArgs
            /\ before' = table
            /\ raised' = f.raised
            /\ status' = f.status
            /\ ret' = IF f.raised THEN NoRet
                      ELSE AnalyzerResult(name, get_all_as_dataframe(f.rows))
            /\ openConns' = openConns + LeftOpen(f.conn, reclaimed)
            /\ printed' = ConnectionPrints(f.conn)
            /\ UNCHANGED <<dirExists, tableCount, table, seq>>

\* ExpenseAnalyzer.get_all_as_dataframe
GetAllAsDataframe == AnalyzerCall("get_all_as_dataframe")

\* ExpenseAnalyzer.get_total_balance
GetTotalBalance == AnalyzerCall("get_total_balance")

\* ExpenseAnalyzer.get_category_totals
GetCategoryTotals == AnalyzerCall("get_category_totals")

Next ==
    \/ Construct /\ UNCHANGED guiVars
    \/ CreateTable /\ UNCHANGED guiVars
    \/ AddExpense /\ UNCHANGED guiVars
    \/ FetchAllExpenses /\ UNCHANGED guiVars
    \/ GetAllAsDataframe /\ UNCHANGED guiVars
    \/ GetTotalBalance /\ UNCHANGED guiVars
    \/ GetCategoryTotals /\ UNCHANGED guiVars

Spec == Init /\ [][Next]_vars

(* --------------------------- the form (MainWindow) -------------------- *)

\* The texts typed into the entries: "" and "T"; "", "12" and "abc"; "" and
\* "Food"; "" and "m".
Titles == {<<>>, <<84>>}

Prices == {<<>>, <<49, 50>>, Abc.s}

CategoryTexts == {<<>>, Food.s}

Memos == {<<>>, <<109>>}

\* datetime.now().strftime("%Y-%m-%d %H:%M:%S")
DatesNow == {Jan, Mar}

\* The user types into the form.
TypeInForm ==
    \E t \in Titles, p \in Prices, c \in CategoryTexts, m \in Memos :
        /\ Form(t, p, c, m) # Form(title_entry, price_entry, category_entry, memo_entry)
        /\ title_entry' = t
        /\ price_entry' = p
        /\ category_entry' = c
        /\ memo_entry' = m
        /\ op' = "type"
        /\ args' = NoArgs
        /\ status' = "ok"
        /\ raised' = FALSE
        /\ ret' = NoRet
        /\ before' = table
        /\ printed' = <<>>
        /\ save' = NoSave
        /\ UNCHANGED <<dirExists, tableCount, table, seq, openConns, tree>>

\* Mutant of RequiredFilled: the category is not among the required fields.
RequiredFilledNoCategory(title, price, category) == title # <<>> /\ price # <<>>

\* not (not title or not price or not category)
RequiredFilled(title, price, category) ==
    title # <<>> /\ price # <<>> /\ category # <<>>

\* float(price) raises ValueError (of the texts typed, all but digits).
FloatRaises(price) == ~IsDigits(price)

\* float(price)
Float(price) == Real(DigitsValue(price))

\* f"{title} | {memo}" if memo else title
Description(title, memo) ==
    IF memo # <<>> THEN title \o <<32, 124, 32>> \o memo ELSE title

\* _save_record stops at a validation error: message box `box`, no call.
SaveRejected(form, box) ==
    /\ save' = [NoSave EXCEPT !.submitted = form, !.dialog = box]
    /\ args' = NoArgs
    /\ status' = "ok"
    /\ raised' = FALSE
    /\ printed' = <<>>
    /\ UNCHANGED <<table, seq, openConns, tree,
                   title_entry, price_entry, category_entry, memo_entry>>

\* _save_record goes on to add_expense, and on True to _clear_form and
\* _refresh_table, which empties the tree and fills it from fetch_all_expenses.
SaveSubmitted(form) ==
    \E now \in DatesNow, env \in Envs, envRefresh \in Envs :
        LET c    == Call(Float(form.price), Text(form.category), now,
                         Text(Description(form.title, form.memo)))
            a    == add_expense(table, seq, c, env)
            f    == fetch_rows(a.rows, envRefresh.connOk, envRefresh.execOk)
            ok   == ~a.raised /\ a.ret
            left == LeftOpen(a.conn, env.reclaimed)
                    + (IF ok THEN LeftOpen(f.conn, envRefresh.reclaimed) ELSE 0)
        IN  /\ Len(table) < MaxRows
            /\ openConns + left <= MaxOpenConns
            \* the refresh has one outcome when it does not run
            /\ ~ok => envRefresh = env
            /\ args' = c
            /\ status' = a.status
            /\ table' = a.rows
            /\ seq' = a.seq
            /\ openConns' = openConns + left
            /\ printed' = ConnectionPrints(a.conn)
                          \o (IF ok THEN ConnectionPrints(f.conn) ELSE <<>>)
            \* an exception of add_expense or of the refresh leaves the handler
            /\ raised' = (a.raised \/ (ok /\ f.raised))
            /\ save' = [submitted |-> form,
                        addCalls  |-> 1,
                        success   |-> IF a.raised THEN "none"
                                      ELSE IF a.ret THEN "True" ELSE "False",
                        dialog    |-> IF a.raised THEN "none"
                                      ELSE IF a.ret THEN "showinfo Success"
                                      ELSE "showerror Failed to add expense",
                        cleared   |-> ok,
                        refreshed |-> ok]
            /\ title_entry' = IF ok THEN <<>> ELSE title_entry
            /\ price_entry' = IF ok THEN <<>> ELSE price_entry
            /\ category_entry' = IF ok THEN <<>> ELSE category_entry
            /\ memo_entry' = IF ok THEN <<>> ELSE memo_entry
            /\ tree' = IF ok THEN f.rows ELSE tree

\* MainWindow._save_record
SaveRecord ==
    LET form == Form(title_entry, price_entry, category_entry, memo_entry)
    IN  /\ op' = "_save_record"
        /\ ret' = NoRet
        /\ before' = table
        /\ UNCHANGED <<dirExists, tableCount>>
        /\ IF ~RequiredFilled(form.title, form.price, form.category)
           THEN SaveRejected(form, "showerror Please fill in all required fields")
           ELSE IF FloatRaises(form.price)
           THEN SaveRejected(form, "showerror Price must be a valid number")
           ELSE SaveSubmitted(form)

NextGui ==
    \/ TypeInForm
    \/ SaveRecord

SpecGui == Init /\ [][NextGui]_vars

(* ------------------------------ properties --------------------------- *)

Range(f) == {f[i] : i \in DOMAIN f}

IdsOf(rows) == {rows[i].id : i \in 1..Len(rows)}

\* The rows a fetch_all_expenses that the engine does not fail returns now.
Fetched == SelectOrderByDateDesc(table)

\* The rows it returned when the last operation was called.
FetchedBefore == SelectOrderByDateDesc(before)

AddSucceeded == op = "add_expense" /\ ~raised /\ ret.b

\* C1: no exception crosses the Store boundary: add_expense and
\* fetch_all_expenses never raise, and when the engine fails (the connection
\* cannot be opened, or the statement fails) add_expense returns False and
\* fetch_all_expenses returns the empty list.
C1_NoExceptionCrossesStore ==
    /\ op \in {"add_expense", "fetch_all_expenses"} => ~raised
    /\ op = "add_expense" /\ status # "ok" => ret.b = FALSE
    /\ op = "fetch_all_expenses" /\ status # "ok" => ret.rows = <<>>

\* C2: every Store operation has closed its connection when it returns, so
\* no connection is open after any sequence of operations.
C2_NoOpenConnection == openConns = 0

\* The rows of Fetched that FetchedBefore does not hold.
NewRows == {r \in Range(Fetched) : r \notin Range(FetchedBefore)}

\* C3 as stated: after add_expense returned True the fetch holds exactly one
\* record more, which carries the very amount, category, date and description
\* of the call and an id no earlier record has.
C3_RoundTripIdentical ==
    AddSucceeded =>
        /\ Len(Fetched) = Len(FetchedBefore) + 1
        /\ \E r \in Range(Fetched) :
            /\ NewRows = {r}
            /\ r.amount = args.amount
            /\ r.category = args.category
            /\ r.date = args.date
            /\ r.description = args.description
            /\ r.id \notin IdsOf(before)

\* Two amounts are the same number: both are numbers or numeric text of the
\* same value.
SameNumber(x, y) ==
    /\ ToNumericCoerce(x).t = "real"
    /\ ToNumericCoerce(x) = ToNumericCoerce(y)

\* C3 (amended): after add_expense returned True the fetch holds exactly one
\* record more; it carries the category, date and description of the call
\* unchanged, the amount unchanged or, when the amount was given as numeric
\* text, as the number it denotes, and an id no earlier record has.
C3_RoundTripModuloCoercion ==
    AddSucceeded =>
        /\ Len(Fetched) = Len(FetchedBefore) + 1
        /\ \E r \in Range(Fetched) :
            /\ NewRows = {r}
            /\ r.amount = args.amount \/ (r.amount.t = "real" /\ SameNumber(r.amount, args.amount))
            /\ r.category = args.category
            /\ r.date = args.date
            /\ r.description = args.description
            /\ r.id \notin IdsOf(before)

\* C3 witness: an insert of an amount given as numeric text succeeded into a
\* table that held a record, with a null description.
C3_Witness ==
    /\ AddSucceeded
    /\ Len(before) >= 1
    /\ args.amount = Seven
    /\ \E r \in Range(Fetched) : r.amount = Real(7) /\ r.id \notin IdsOf(before)

FetchSucceeded == op = "fetch_all_expenses" /\ ~raised /\ status = "ok"

\* C4: fetch_all_expenses returns every stored record exactly once, and of
\* two adjacent records the date of the first is not smaller than the date of
\* the second.
C4_FetchOrderedByDateDesc ==
    FetchSucceeded =>
        /\ Len(ret.rows) = Len(table)
        /\ \A i \in 1..Len(table) :
            Cardinality({j \in 1..Len(ret.rows) : ret.rows[j] = table[i]}) = 1
        /\ \A j \in 1..(Len(ret.rows) - 1) :
            ~LexLess(ret.rows[j].date.s, ret.rows[j + 1].date.s)

\* C4 witness: three records inserted as January, March, February are
\* returned as March, February, January.
C4_Witness ==
    /\ FetchSucceeded
    /\ Len(table) = 3
    /\ <<table[1].date, table[2].date, table[3].date>> = <<Jan, Mar, Feb>>
    /\ <<ret.rows[1].date, ret.rows[2].date, ret.rows[3].date>> = <<Mar, Feb, Jan>>

\* C5: no two stored records share an id, ids grow in the order of insertion,
\* and a successful add_expense assigns an id greater than every id assigned
\* before; a failed insert assigns none.
C5_IdsUniqueIncreasing ==
    /\ \A i, j \in 1..Len(table) : i < j => table[i].id < table[j].id
    /\ AddSucceeded =>
        /\ Len(table) = Len(before) + 1
        /\ \A k \in IdsOf(before) : k < table[Len(table)].id
    /\ op = "add_expense" /\ ~AddSucceeded => IdsOf(table) = IdsOf(before)

\* C5 witness: a third record got an id above the two before it.
C5_Witness ==
    /\ AddSucceeded
    /\ Len(table) = 3
    /\ table[3].id > table[2].id
    /\ table[2].id > table[1].id

\* C6: the store is append-only: the records a fetch returned before an
\* operation are returned after it with the same id, amount, category, date
\* and description, whichever operation it was.
C6_AppendOnly ==
    /\ \A r \in Range(FetchedBefore) : r \in Range(Fetched)
    /\ \A i \in 1..Len(before) : i <= Len(table) /\ table[i] = before[i]
    /\ FetchSucceeded => \A r \in Range(FetchedBefore) : r \in Range(ret.rows)

\* C6 witness: a third record was inserted and the two stored before are kept.
C6_Witness ==
    /\ AddSucceeded
    /\ Len(before) = 2
    /\ Len(table) = 3
    /\ table[1] = before[1]
    /\ table[2] = before[2]

\* C7: create_table and the constructor never raise, never leave more than
\* one expenses table, and leave the stored records as they were; when the
\* engine does not fail the table exists afterwards.
C7_CreateTableIdempotent ==
    op \in {"create_table", "__init__"} =>
        /\ ~raised
        /\ tableCount <= 1
        /\ table = before
        /\ status = "ok" => tableCount = 1

\* C7 witness: create_table ran again on a table that holds records.
C7_Witness ==
    /\ op = "create_table"
    /\ status = "ok"
    /\ Len(before) >= 2
    /\ tableCount = 1

\* Whether a stored amount can be coerced to a number, and the number.
Coercible(val) == val.t = "real" \/ (val.t = "text" /\ IsDigits(val.s))

NumberOf(val) == IF val.t = "real" THEN val.v ELSE DigitsValue(val.s)

RECURSIVE SumOver(_, _)
\* The sum of the coercible amounts of the rows with an index in S.
SumOver(S, rows) ==
    IF S = {} THEN 0
    ELSE LET i == CHOOSE k \in S : TRUE
         IN  (IF Coercible(rows[i].amount) THEN NumberOf(rows[i].amount) ELSE 0)
             + SumOver(S \ {i}, rows)

CategoriesOf(rows) == {rows[i].category : i \in 1..Len(rows)}

IndexesOf(rows, cat) == {i \in 1..Len(rows) : rows[i].category = cat}

\* C8: get_category_totals returns a mapping whose keys are the categories of
\* the stored records and whose value for a category is the sum of the
\* amounts of the records of that category (an amount that is no number adds
\* nothing); it is the empty mapping when nothing is stored.
C8_CategoryTotals ==
    op = "get_category_totals" /\ status = "ok" =>
        /\ ~raised
        /\ DOMAIN ret.map = CategoriesOf(table)
        /\ \A cat \in CategoriesOf(table) :
            ret.map[cat] = SumOver(IndexesOf(table, cat), table)
        /\ table = <<>> => ret.map = <<>>

\* C8 witness: (10, Food), (20, Food), (5, Transport) give Food 30, Transport 5.
C8_Witness ==
    /\ op = "get_category_totals"
    /\ status = "ok"
    /\ Len(table) = 3
    /\ DOMAIN ret.map = {Food, Transport}
    /\ ret.map[Food] = 30
    /\ ret.map[Transport] = 5

\* C9: get_total_balance returns the sum of the stored amounts that can be
\* coerced to a number and does not raise over one that cannot; it is 0 when
\* nothing is stored, and fetch_all_expenses is then the empty sequence.
C9_TotalBalance ==
    /\ op = "get_total_balance" /\ status = "ok" =>
        /\ ~raised
        /\ ret.num = SumOver(1..Len(table), table)
        /\ table = <<>> => ret.num = 0
    /\ FetchSucceeded /\ table = <<>> => ret.rows = <<>>

\* C9 witness: a stored amount "abc" is left out of a total of 10 + 7.
C9_Witness ==
    /\ op = "get_total_balance"
    /\ status = "ok"
    /\ ~raised
    /\ \E i \in 1..Len(table) : table[i].amount = Abc
    /\ \E i \in 1..Len(table) : table[i].amount = Real(10)
    /\ \E i \in 1..Len(table) : table[i].amount = Real(7)
    /\ ret.num = 17

Aggregates == {"get_all_as_dataframe", "get_total_balance", "get_category_totals"}

\* C10: the Aggregator caches nothing: every aggregate call works on the
\* records stored when it is called, so the record inserted last is in the
\* frame, its category is a key of the totals, and the balance is the balance
\* of the records before it plus its amount.
C10_NoCache ==
    op \in Aggregates /\ status = "ok" /\ table # <<>> =>
        LET last    == table[Len(table)]
            earlier == SubSeq(table, 1, Len(table) - 1)
        IN  /\ op = "get_all_as_dataframe" =>
                /\ IdsOf(ret.rows) = IdsOf(table)
                /\ Len(ret.rows) = Len(table)
            /\ op = "get_category_totals" =>
                /\ last.category \in DOMAIN ret.map
                /\ ret.map[last.category] =
                       SumOver(IndexesOf(earlier, last.category), earlier)
                       + SumOver({Len(table)}, table)
            /\ op = "get_total_balance" =>
                ret.num = SumOver(1..Len(earlier), earlier) + SumOver({Len(table)}, table)

\* C10 witness: the frame read after three inserts holds the three records.
C10_Witness ==
    /\ op = "get_all_as_dataframe"
    /\ status = "ok"
    /\ Len(table) = 3
    /\ Len(ret.rows) = 3
    /\ table[3].id \in IdsOf(ret.rows)

\* C11: every stored record has a non-null amount, category and date: an
\* add_expense with a null amount, category or date whose connection was
\* opened fails at the statement, returns False and leaves the stored records
\* as they were; a null description is accepted and stored as null.
C11_RequiredColumnsNotNull ==
    /\ \A i \in 1..Len(table) :
        /\ table[i].amount.t # "null"
        /\ table[i].category.t # "null"
        /\ table[i].date.t # "null"
    /\ (/\ op = "add_expense"
        /\ status # "conn_failed"
        /\ Null \in {args.amount, args.category, args.date})
       => /\ status = "exec_failed"
          /\ ~raised
          /\ ret.b = FALSE
          /\ table = before
    /\ AddSucceeded /\ args.description = Null =>
        /\ Len(table) = Len(before) + 1
        /\ table[Len(table)].description = Null

\* C11 witness: an insert with a null category into a table that holds a
\* record with a null description was refused.
C11_Witness ==
    /\ op = "add_expense"
    /\ status = "exec_failed"
    /\ args.category = Null
    /\ args.amount # Null
    /\ ret.b = FALSE
    /\ \E i \in 1..Len(table) : table[i].description = Null

\* C12: a constructor that cannot create the directory reports it, goes on
\* to call create_table, whose connection attempt fails, and returns without
\* raising.
C12_MkdirFailureDoesNotHalt ==
    op = "__init__" /\ ~dirExists =>
        /\ ~raised
        /\ Len(printed) = 4
        /\ printed[1] = MsgMkdirFailed
        /\ printed[2] = MsgAttempting
        /\ printed[3] = MsgSqliteError
        /\ printed[4] = MsgNoConnection
        /\ status = "conn_failed"
        /\ tableCount = 0

\* C12 witness: the constructor ran without a directory and returned.
C12_Witness ==
    /\ op = "__init__"
    /\ ~dirExists
    /\ ~raised
    /\ MsgMkdirFailed \in Range(printed)
    /\ MsgNoConnection \in Range(printed)

\* The form _save_record read passes its validation.
SubmittedValid ==
    /\ save.submitted.title # <<>>
    /\ save.submitted.price # <<>>
    /\ save.submitted.category # <<>>
    /\ IsDigits(save.submitted.price)

\* C13: _save_record calls add_expense at most once, and only when title,
\* price and category are non-empty and the price is a number; when the
\* validation fails it shows an error and leaves the store as it was; the
\* form is cleared and the table view refreshed only when add_expense
\* returned True, and an error box is shown when it returned False.
C13_SaveRecord ==
    op = "_save_record" =>
        /\ save.addCalls <= 1
        /\ save.addCalls = 1 => SubmittedValid
        /\ ~SubmittedValid =>
            /\ save.addCalls = 0
            /\ save.dialog \in {"showerror Please fill in all required fields",
                                "showerror Price must be a valid number"}
            /\ table = before
            /\ ~save.cleared /\ ~save.refreshed
        /\ save.cleared \/ save.refreshed =>
            /\ save.addCalls = 1
            /\ save.success = "True"
            /\ Len(table) = Len(before) + 1
        /\ save.cleared =>
            Form(title_entry, price_entry, category_entry, memo_entry)
                = Form(<<>>, <<>>, <<>>, <<>>)
        \* the refreshed view shows what its fetch returned: the stored rows,
        \* or nothing when the fetch failed
        /\ save.refreshed => tree \in {SelectOrderByDateDesc(table), <<>>}
        /\ save.success = "False" =>
            /\ save.dialog = "showerror Failed to add expense"
            /\ table = before
            /\ Form(title_entry, price_entry, category_entry, memo_entry) = save.submitted

\* C13 witness: a save of title "T", price "12", category "Food", memo "m"
\* succeeded, the form is empty and the table view shows the new record.
C13_Witness ==
    /\ op = "_save_record"
    /\ save.submitted = Form(<<84>>, <<49, 50>>, Food.s, <<109>>)
    /\ save.addCalls = 1
    /\ save.success = "True"
    /\ save.cleared
    /\ save.refreshed
    /\ title_entry = <<>>
    /\ Len(before) = 1
    /\ Len(tree) = 2
    /\ \E i \in 1..2 :
        /\ tree[i].amount = Real(12)
        /\ tree[i].category = Food
        /\ tree[i].description = Text(<<84, 32, 124, 32, 109>>)

=============================================================================
